---- MODULE Spec2Model ----
(***************************************************************************)
(* Update-decision state machine of electron-inline-updater.               *)
(*                                                                         *)
(* Three revisions of the coordinator are kept in the repository:          *)
(*   src/unnamed/part_000          (definitions suffixed _p0)              *)
(*   src/src/lib/inlineUpdater.ts  (definitions suffixed _lib)             *)
(*   src/unnamed/part_001          (definitions suffixed _p1)              *)
(*                                                                         *)
(* Strings the code inspects are modelled by their parts:                  *)
(*   a tag name is the sequence of its numeric components, <<1,2,0>> for   *)
(*   "v1.2.0", <<1,3,0,1>> for "1.3.0-1", <<1,6>> for "1.6", <<>> for      *)
(*   "latest"; an asset name is its sequence of "."/"-" separated tokens;  *)
(*   an interval string is its leading number and its unit word.           *)
(***************************************************************************)
EXTENDS Integers, Sequences, FiniteSets, TLC

VARIABLES
    \* ---- release resolver, exercised on its own
    response,           \* the feed response handed to fetchDownloadUrl
    resolved,           \* outcome of that fetchDownloadUrl call
    \* ---- which revision of the coordinator runs: "p0", "lib", "p1"
    revision,
    \* ---- host application (electron.app, process)
    platform,           \* process.platform
    isPackaged,         \* app.isPackaged
    installed,          \* app.getVersion()
    packageJson,        \* package.json found under app.getAppPath()
    appReady,           \* app.isReady()
    \* ---- coordinator instance
    setupState,         \* "idle", "returned" or "threw": outcome of setup();
                        \* "awaiting" while part_001's setup awaits the feed
    setupReturn,        \* the value setup() returned, "none" before it did
    calledWith,         \* the argument setup() was called with
    readyOpts,          \* opts captured by the registered "ready" listeners
    options,            \* this.options (part_000) / the option fields (lib)
    hasLatestVersion,
    fetchedVersion,
    pauseUpdates,
    downloadUrl,
    cycles,             \* one record per started check cycle
    timers,             \* setInterval timers created
    rejections,         \* async functions that ended in an unhandled rejection
    \* ---- native updater (electron.autoUpdater)
    feedURL,            \* argument of the last setFeedURL call
    downloadedHandlers, \* listeners registered for "update-downloaded"
    downloadedEvents,   \* "update-downloaded" events emitted
    \* ---- restart prompts and what followed them
    restarts,           \* one record per restart prompt shown
    quitCalls,          \* autoUpdater.quitAndInstall() calls
    \* ---- input validation, exercised on its own
    validated           \* one record per validateInput call

resolverVars == <<response, resolved>>
updaterVars  == <<downloadedEvents, restarts, quitCalls>>
hostVars     == <<revision, platform, isPackaged, installed, packageJson,
                  appReady>>
fieldVars    == <<hasLatestVersion, fetchedVersion, pauseUpdates, downloadUrl>>
coordVars    == <<setupState, setupReturn, calledWith, readyOpts, options,
                  fieldVars, cycles, timers, rejections, feedURL,
                  downloadedHandlers>>
vars         == <<resolverVars, validated, updaterVars, hostVars, coordVars>>

----------------------------------------------------------------------------
(* Bounds *)

MaxFeedLen == 3         \* releases in one feed response
MaxCycles  == 2         \* check cycles and timer callbacks in one run
MaxCalls   == 3         \* validateInput calls on one instance

----------------------------------------------------------------------------
(* JavaScript values *)

NULL      == [kind |-> "null"]
UNDEFINED == [kind |-> "undefined"]

Url(user, repo, tag, file) ==
    [kind |-> "url", user |-> user, repo |-> repo, tag |-> tag, file |-> file]

Truthy(v) == v.kind \notin {"null", "undefined"}

----------------------------------------------------------------------------
(* semver *)

\* semver.valid(tag): three numeric components, optionally a pre-release
SemverValid(tag) == Len(tag) \in {3, 4}

RECURSIVE CompareMain(_, _, _)
CompareMain(a, b, i) ==
    IF i > 3 THEN 0
    ELSE IF a[i] < b[i] THEN -1
    ELSE IF a[i] > b[i] THEN 1
    ELSE CompareMain(a, b, i + 1)

\* a version with a pre-release precedes the same version without one
ComparePre(a, b) ==
    IF Len(a) = 3 /\ Len(b) = 3 THEN 0
    ELSE IF Len(a) = 3 THEN 1
    ELSE IF Len(b) = 3 THEN -1
    ELSE IF a[4] < b[4] THEN -1
    ELSE IF a[4] > b[4] THEN 1
    ELSE 0

SemverCompare(a, b) ==
    IF CompareMain(a, b, 1) # 0 THEN CompareMain(a, b, 1) ELSE ComparePre(a, b)

SemverGt(a, b) == SemverCompare(a, b) > 0

SemverGte(a, b) == SemverCompare(a, b) >= 0

SemverLte(a, b) == SemverCompare(a, b) =< 0

----------------------------------------------------------------------------
(* Release feed *)

Asset(name) == [name |-> name]

FullNupkg  == Asset(<<"app", "full", "nupkg">>)
DeltaNupkg == Asset(<<"app", "delta", "nupkg">>)
DarwinZip  == Asset(<<"app", "darwin", "x64", "zip">>)
ReleasesTxt == Asset(<<"RELEASES">>)
NupkgTxt   == Asset(<<"app", "nupkg", "txt">>)

Release(tag, draft, prerelease, assets) ==
    [tag_name |-> tag, draft |-> draft, prerelease |-> prerelease,
     assets |-> assets]

R120      == Release(<<1, 2, 0>>, 0, 0, <<FullNupkg>>)
R130pre   == Release(<<1, 3, 0>>, 0, 1, <<FullNupkg>>)
R140      == Release(<<1, 4, 0>>, 0, 0, <<ReleasesTxt, FullNupkg>>)
R150      == Release(<<1, 5, 0>>, 0, 0, <<FullNupkg, DeltaNupkg>>)
R150rc    == Release(<<1, 5, 0, 1>>, 0, 0, <<FullNupkg>>)
R160draft == Release(<<1, 6, 0>>, 1, 0, <<FullNupkg>>)
R16       == Release(<<1, 6>>, 0, 0, <<FullNupkg>>)
R160bare  == Release(<<1, 6, 0>>, 0, 0, <<ReleasesTxt, NupkgTxt>>)
R170mac   == Release(<<1, 7, 0>>, 0, 0, <<DarwinZip>>)

Releases ==
    {R120, R130pre, R140, R150, R160draft, R16, R160bare, R170mac}

NoTag == <<>>

SeqsUpTo(S, n) == UNION { [1..k -> S] : k \in 0..n }

Feeds == SeqsUpTo(Releases, MaxFeedLen)

Platforms == {"win32", "darwin", "linux"}

\* asset.name.endsWith(".nupkg")
EndsWithNupkg(asset) ==
    Len(asset.name) > 0 /\ asset.name[Len(asset.name)] = "nupkg"

\* asset.name.includes("darwin")
IncludesDarwin(asset) ==
    \E i \in 1..Len(asset.name) : asset.name[i] = "darwin"

isAssetAvailableAny(assets, plat) == Len(assets) > 0

isAssetAvailable(assets, plat) ==
    IF plat = "win32"
        THEN \E i \in 1..Len(assets) : EndsWithNupkg(assets[i])
    ELSE IF plat = "darwin"
        THEN \E i \in 1..Len(assets) : IncludesDarwin(assets[i])
    ELSE FALSE

\* release.assets.find((asset) => asset.name.endsWith(".nupkg"))
nupkgAsset(assets) ==
    \E i \in 1..Len(assets) : EndsWithNupkg(assets[i])

\* the part of the loop body that decides `continue`
Skipped(release) ==
    \/ ~SemverValid(release.tag_name)
    \/ release.draft # 0
    \/ release.prerelease # 0

RECURSIVE ScanHighest_p0(_, _, _)
ScanHighest_p0(releases, i, plat) ==
    IF i > Len(releases) THEN 0
    ELSE LET rest == ScanHighest_p0(releases, i + 1, plat)
             ok   == /\ ~Skipped(releases[i])
                     /\ isAssetAvailable(releases[i].assets, plat)
         IN IF ~ok THEN rest
            ELSE IF rest = 0 THEN i
            ELSE IF SemverGte(releases[i].tag_name, releases[rest].tag_name)
                 THEN i ELSE rest

\* for (const release of releases): index of the release the loop returns
\* at, 0 when the loop runs to its end
RECURSIVE Scan_p0(_, _, _)
Scan_p0(releases, i, plat) ==
    IF i > Len(releases) THEN 0
    ELSE IF Skipped(releases[i]) THEN Scan_p0(releases, i + 1, plat)
    ELSE IF isAssetAvailable(releases[i].assets, plat) THEN i
    ELSE Scan_p0(releases, i + 1, plat)

RECURSIVE Scan_lib(_, _)
Scan_lib(releases, i) ==
    IF i > Len(releases) THEN 0
    ELSE IF Skipped(releases[i]) THEN Scan_lib(releases, i + 1)
    ELSE IF nupkgAsset(releases[i].assets) THEN i
    ELSE Scan_lib(releases, i + 1)

----------------------------------------------------------------------------
(* Feed responses *)

NetworkError == [kind |-> "neterr"]

HttpResponse(status, body) == [kind |-> "http", status |-> status, body |-> body]

ArrayBody(items) == [kind |-> "array", items |-> items]

ObjectBody(item) == [kind |-> "object", item |-> item]

Malformed == [kind |-> "malformed"]

Responses ==
    {NetworkError, HttpResponse(500, Malformed), HttpResponse(200, Malformed)}
    \cup {HttpResponse(200, ArrayBody(f)) : f \in Feeds}
    \cup {HttpResponse(200, ObjectBody(r)) : r \in Releases}

\* response.ok
Ok(resp) == resp.status \in 200..299

\* the statements of the try block up to the loop throw
FetchThrows(resp) ==
    \/ resp.kind = "neterr"
    \/ ~Ok(resp)
    \/ resp.body.kind = "malformed"

\* Array.isArray(data) ? data : [data]
ReleasesOf(resp) ==
    IF resp.body.kind = "array" THEN resp.body.items ELSE <<resp.body.item>>

\* how a call of fetchDownloadUrl ends: index is the position of the release
\* the loop returned at, 0 when it returned at none
Returned(value, fv, i) ==
    [threw |-> FALSE, value |-> value, fetchedVersion |-> fv, index |-> i]

Thrown(fv) ==
    [threw |-> TRUE, value |-> UNDEFINED, fetchedVersion |-> fv, index |-> 0]

\* part_000: the catch block rethrows; a scan that selects nothing
\* returns null
fetchDownloadUrl_p0(resp, user, repo, plat, fv) ==
    IF FetchThrows(resp) THEN Thrown(fv)
    ELSE LET releases == ReleasesOf(resp)
             i        == Scan_p0(releases, 1, plat)
         IN IF i = 0 THEN Returned(NULL, fv, 0)
            ELSE Returned(Url(user, repo, releases[i].tag_name, ""),
                          releases[i].tag_name, i)

\* inlineUpdater.ts: the catch block returns null; a scan that selects
\* nothing falls off the end of the function
fetchDownloadUrl_lib(resp, user, repo, fv) ==
    IF FetchThrows(resp) THEN Returned(NULL, fv, 0)
    ELSE LET releases == ReleasesOf(resp)
             i        == Scan_lib(releases, 1)
         IN IF i = 0 THEN Returned(UNDEFINED, fv, 0)
            ELSE Returned(Url(user, repo, releases[i].tag_name, "RELEASES"),
                          releases[i].tag_name, i)

----------------------------------------------------------------------------
(* Options and their validation *)

\* an options object is a function on the keys it carries; setup() without
\* an argument passes None
None == [k \in {} |-> 0]

Field(k, v) == [f \in {k} |-> v]

Has(o, k) == k \in DOMAIN o

Interval(lead, unit) == [lead |-> lead, unit |-> unit]

TenMinutes  == Interval(10, "minutes")
FiveMin     == Interval(5, "minutes")
FourMinutes == Interval(4, "minutes")
TenParsecs  == Interval(10, "parsecs")
Soon        == Interval(-1, "soon")
EmptyString == Interval(-1, "")

IntervalStrings == {FiveMin, FourMinutes, TenParsecs, Soon, EmptyString}

\* the arguments setup() is called with: each of repo and user given or left
\* out; with both given, every interval string and every setting of the
\* two flags
Named == Field("repo", "proj") @@ Field("user", "owner")

OptsSet ==
    { r @@ u : r \in {None, Field("repo", "proj")},
               u \in {None, Field("user", "owner")} }
    \cup { Named @@ Field("updateInterval", iv) : iv \in IntervalStrings }
    \cup { Named @@ d @@ a :
              d \in {None, Field("notifyBeforeDownload", TRUE),
                           Field("notifyBeforeDownload", FALSE)},
              a \in {None, Field("notifyBeforeApply", TRUE),
                           Field("notifyBeforeApply", FALSE)} }

PackageJsons ==
    { [exists |-> FALSE, repository |-> <<>>],
      [exists |-> TRUE,  repository |-> <<"pkgowner", "pkgproj">>] }

InstalledVersions == { <<1, 4, 9>>, <<1, 5, 0>> }

\* updateInterval.match(/^\d+/)
MatchesDigits(iv) == iv.lead >= 0

\* ms(str): milliseconds, -1 where ms returns undefined
ms(iv) ==
    IF iv.lead < 0 THEN -1
    ELSE IF iv.unit \in {"", "ms"} THEN iv.lead
    ELSE IF iv.unit \in {"s", "seconds"} THEN iv.lead * 1000
    ELSE IF iv.unit \in {"m", "minutes"} THEN iv.lead * 60 * 1000
    ELSE IF iv.unit \in {"h", "hours"} THEN iv.lead * 60 * 60 * 1000
    ELSE -1

MinInterval == 5 * 60 * 1000

\* the readFileSync / JSON.parse / gh() chain throws or yields null unless
\* the descriptor names a user/repo pair
guessRepo(pkg) ==
    IF pkg.exists /\ Len(pkg.repository) = 2
        THEN [user |-> pkg.repository[1], repo |-> pkg.repository[2]]
        ELSE [user |-> "", repo |-> ""]

\* opts?.key || fallback, for string options
OrString(opts, key, fallback) ==
    IF Has(opts, key) /\ opts[key] # "" THEN opts[key] ELSE fallback

\* opts?.key ?? fallback
Coalesce(opts, key, fallback) ==
    IF Has(opts, key) THEN opts[key] ELSE fallback

\* the three assert() calls
AssertsPassNoMinimum(o) ==
    /\ o.repo # ""
    /\ MatchesDigits(o.updateInterval)

AssertsPass(o) ==
    /\ o.repo # ""
    /\ MatchesDigits(o.updateInterval)
    /\ ms(o.updateInterval) >= MinInterval

\* a validateInput whose owner falls back on the repo left in this.options
validateInputStale_p0(opts, opt, pkg) ==
    LET pgkRepo  == guessRepo(pkg)
        assigned ==
            [repo |-> OrString(opts, "repo", pgkRepo.repo),
             user |-> OrString(opts, "user",
                               IF Has(opt, "repo") THEN opt.repo
                                                   ELSE pgkRepo.user),
             updateInterval |->
                 Coalesce(opts, "updateInterval", opt.updateInterval),
             notifyBeforeApply |->
                 Coalesce(opts, "notifyBeforeApply", opt.notifyBeforeApply),
             notifyBeforeDownload |->
                 Coalesce(opts, "notifyBeforeDownload",
                          opt.notifyBeforeDownload)]
    IN [options |-> assigned, threw |-> ~AssertsPass(assigned)]

\* part_000: the assignments to this.options, then the asserts
validateInput_p0(opts, opt, pkg) ==
    LET pgkRepo  == guessRepo(pkg)
        assigned ==
            [repo |-> OrString(opts, "repo", pgkRepo.repo),
             user |-> OrString(opts, "user", pgkRepo.user),
             updateInterval |->
                 Coalesce(opts, "updateInterval", opt.updateInterval),
             notifyBeforeApply |->
                 Coalesce(opts, "notifyBeforeApply", opt.notifyBeforeApply),
             notifyBeforeDownload |->
                 Coalesce(opts, "notifyBeforeDownload",
                          opt.notifyBeforeDownload)]
    IN [options |-> assigned, threw |-> ~AssertsPass(assigned)]

----------------------------------------------------------------------------
(* Check cycles *)

\* One record per run of checkForUpdates / checkVersionDelta / the timer
\* callback.
\* kind: "ready" for the one started at readiness, "timer" for one started
\*       by the interval timer
\* pc: "fetch" while the feed request is outstanding, "prompt" while the
\*     download-consent dialog is open, "rejected" when the async function
\*     ended in a rejection, "done" otherwise
\* outcome: "paused", "failed", "none", "resolved" or "update" once known
\* tag: the tag of the release the cycle resolved
\* shown, setFeed, downloads: download-consent prompts shown, setFeedURL
\*     calls and autoUpdater.checkForUpdates() calls made by the cycle
\* answer: button index chosen in the cycle's prompt, -1 while unanswered
Cycle(kind, pc, outcome) ==
    [kind |-> kind, pc |-> pc, outcome |-> outcome, tag |-> NoTag,
     shown |-> 0, setFeed |-> 0, downloads |-> 0, answer |-> -1]

Buttons == {0, 1}       \* "Yes", "Later"

CoordResponses ==
    { NetworkError,
      HttpResponse(500, Malformed),
      HttpResponse(200, Malformed),
      HttpResponse(200, ArrayBody(<<>>)),
      HttpResponse(200, ArrayBody(<<R130pre, R160draft>>)),
      HttpResponse(200, ArrayBody(<<R120, R130pre, R140>>)),
      HttpResponse(200, ArrayBody(<<R150, R120>>)),
      HttpResponse(200, ArrayBody(<<R150rc>>)),
      HttpResponse(200, ArrayBody(<<R120, R170mac>>)),
      HttpResponse(200, ObjectBody(R150)) }

NotRun == [by |-> "none"]

\* autoUpdater.checkForUpdates() calls made by the cycles cs[1..n]
RECURSIVE NativeChecks(_, _)
NativeChecks(cs, n) ==
    IF n = 0 THEN 0 ELSE cs[n].downloads + NativeChecks(cs, n - 1)

\* a restart prompt: answer is the button index chosen, -1 while it is open
RestartPrompt == [answer |-> -1]

RestartButtons == {0, 1}        \* "Restart", "Later"

\* the restart prompts after the listeners of "update-downloaded" ran: each of
\* the n registered listeners shows one
RECURSIVE Notified(_, _)
Notified(rs, n) ==
    IF n = 0 THEN rs ELSE Notified(Append(rs, RestartPrompt), n - 1)

\* the state of a freshly constructed InlineUpdaterClass in a host that has
\* not signalled readiness
Constructed ==
    /\ response = NetworkError
    /\ resolved = NotRun
    /\ platform \in Platforms
    /\ isPackaged \in BOOLEAN
    /\ installed \in InstalledVersions
    /\ packageJson \in PackageJsons
    /\ appReady = FALSE
    /\ setupState = "idle"
    /\ setupReturn = "none"
    /\ calledWith = None
    /\ readyOpts = <<>>
    /\ hasLatestVersion = TRUE
    /\ fetchedVersion = <<0, 0, 0>>
    /\ pauseUpdates = FALSE
    /\ downloadUrl = UNDEFINED
    /\ cycles = <<>>
    /\ timers = 0
    /\ rejections = 0
    /\ feedURL = UNDEFINED
    /\ downloadedHandlers = 0
    /\ downloadedEvents = 0
    /\ restarts = <<>>
    /\ quitCalls = 0
    /\ validated = <<>>

----------------------------------------------------------------------------
(* Coordinator of src/unnamed/part_000 *)

supportedPlatforms_p0 == {"darwin", "win32"}

defaultOptions_p0 ==
    [updateInterval |-> TenMinutes, notifyBeforeApply |-> TRUE,
     notifyBeforeDownload |-> TRUE]

\* a checkForUpdates that raises the download prompt before its feed request
checkForUpdatesStartPrompting_p0(kind) ==
    cycles' = Append(cycles,
        IF pauseUpdates THEN Cycle(kind, "done", "paused")
        ELSE [Cycle(kind, "fetch", "-") EXCEPT !.shown = 1])

\* a checkForUpdates that stands back while an earlier cycle has no outcome
checkForUpdatesStartIdle_p0(kind) ==
    cycles' = Append(cycles,
        IF pauseUpdates \/ \E c \in 1..Len(cycles) :
                              cycles[c].pc \in {"fetch", "rejected"}
            THEN Cycle(kind, "done", "paused")
            ELSE Cycle(kind, "fetch", "-"))

\* a checkForUpdates that does not look at pauseUpdates
checkForUpdatesStartUnpaused_p0(kind) ==
    cycles' = Append(cycles, Cycle(kind, "fetch", "-"))

\* checkForUpdates up to its first await
checkForUpdatesStart_p0(kind) ==
    cycles' = Append(cycles, IF pauseUpdates THEN Cycle(kind, "done", "paused")
                                             ELSE Cycle(kind, "fetch", "-"))

\* an initUpdater that starts the first check and the timer but registers no
\* "update-downloaded" listener
initUpdaterNoListener_p0(opt) ==
    /\ checkForUpdatesStart_p0("ready")
    /\ timers' = timers + 1
    /\ UNCHANGED downloadedHandlers

initUpdater_p0(opt) ==
    /\ checkForUpdatesStart_p0("ready")
    /\ timers' = timers + 1
    /\ downloadedHandlers' =
          downloadedHandlers + (IF opt.notifyBeforeApply THEN 1 ELSE 0)

onAppReady_p0(opt) ==
    IF ~isPackaged \/ platform \notin supportedPlatforms_p0
        THEN UNCHANGED <<cycles, timers, downloadedHandlers>>
        ELSE initUpdater_p0(opt)

setup_p0(opts) ==
    /\ revision = "p0"
    /\ setupState = "idle"
    /\ calledWith' = opts
    /\ LET v == validateInput_p0(opts, options, packageJson)
       IN /\ options' = v.options
          /\ IF v.threw
                THEN /\ setupState' = "threw"
                     /\ UNCHANGED <<setupReturn, readyOpts, cycles, timers,
                                    downloadedHandlers>>
                ELSE /\ setupState' = "returned"
                     /\ setupReturn' = "true"
                     /\ IF appReady
                           THEN /\ onAppReady_p0(v.options)
                                /\ UNCHANGED readyOpts
                           ELSE /\ readyOpts' = Append(readyOpts, None)
                                /\ UNCHANGED <<cycles, timers,
                                               downloadedHandlers>>
    /\ UNCHANGED <<resolverVars, validated, updaterVars, hostVars, fieldVars,
                   rejections, feedURL>>

\* the host application's "ready" event
AppReady_p0 ==
    /\ revision = "p0"
    /\ ~appReady
    /\ appReady' = TRUE
    /\ IF Len(readyOpts) > 0
          THEN onAppReady_p0(options)
          ELSE UNCHANGED <<cycles, timers, downloadedHandlers>>
    /\ UNCHANGED <<resolverVars, validated, updaterVars, revision, platform,
                   isPackaged, installed, packageJson, setupState,
                   setupReturn, calledWith, readyOpts, options,
                   fieldVars, rejections, feedURL>>

\* the setInterval callback
TimerFire_p0 ==
    /\ revision = "p0"
    /\ timers > 0
    /\ Len(cycles) < MaxCycles
    /\ checkForUpdatesStart_p0("timer")
    /\ UNCHANGED <<resolverVars, validated, updaterVars, hostVars, setupState,
                   setupReturn, calledWith, readyOpts,
                   options, fieldVars, timers, rejections, feedURL,
                   downloadedHandlers>>

\* checkVersionDelta after fetchDownloadUrl returned r
checkVersionDeltaGt_p0(r) ==
    IF ~Truthy(r.value) THEN FALSE
    ELSE SemverGt(installed, r.fetchedVersion)

\* a checkVersionDelta with the comparison turned round
checkVersionDeltaLte_p0(r) ==
    IF ~Truthy(r.value) THEN FALSE
    ELSE SemverGte(r.fetchedVersion, installed)

checkVersionDelta_p0(r) ==
    IF ~Truthy(r.value) THEN FALSE
    ELSE SemverGte(installed, r.fetchedVersion)

\* the tail of checkForUpdates once an update is known to be available:
\* promptDownload() or electronUpdater.checkForUpdates()
downloadUnasked_p0(cy, notify) ==
    [cy EXCEPT !.pc = "done", !.downloads = @ + 1]

\* a tail that raises the download prompt twice
downloadOrPromptTwice_p0(cy, notify) ==
    IF notify THEN [cy EXCEPT !.pc = "prompt", !.shown = @ + 2]
              ELSE [cy EXCEPT !.pc = "done", !.downloads = @ + 1]

downloadOrPrompt_p0(cy, notify) ==
    IF notify THEN [cy EXCEPT !.pc = "prompt", !.shown = @ + 1]
              ELSE [cy EXCEPT !.pc = "done", !.downloads = @ + 1]

\* the feed request of cycle c completes with resp: the rest of
\* fetchDownloadUrl, checkVersionDelta and checkForUpdates.  The three
\* continuations run as consecutive microtasks of one event-loop turn, so no
\* timer, dialog or other response callback runs between them.
FeedResponse_p0(c, resp) ==
    /\ revision = "p0"
    /\ cycles[c].pc = "fetch"
    /\ LET r == fetchDownloadUrl_p0(resp, options.user, options.repo,
                                    platform, fetchedVersion)
       IN IF r.threw
            THEN /\ cycles' = [cycles EXCEPT ![c].pc = "rejected",
                                             ![c].outcome = "failed"]
                 /\ rejections' = rejections + 1
                 /\ UNCHANGED <<fieldVars, feedURL>>
            ELSE LET has == checkVersionDelta_p0(r)
                     cy  == [cycles[c] EXCEPT
                               !.outcome = IF Truthy(r.value) THEN "resolved"
                                                              ELSE "none",
                               !.tag = IF Truthy(r.value) THEN r.value.tag
                                                          ELSE NoTag]
                 IN /\ fetchedVersion' = r.fetchedVersion
                    /\ downloadUrl' = r.value
                    /\ hasLatestVersion' = has
                    /\ UNCHANGED <<pauseUpdates, rejections>>
                    /\ IF has
                          THEN /\ cycles' = [cycles EXCEPT
                                               ![c] = [cy EXCEPT !.pc = "done"]]
                               /\ UNCHANGED feedURL
                          ELSE /\ feedURL' = r.value
                               /\ cycles' = [cycles EXCEPT ![c] =
                                    downloadOrPrompt_p0(
                                        [cy EXCEPT !.setFeed = @ + 1],
                                        options.notifyBeforeDownload)]
    /\ UNCHANGED <<resolverVars, validated, updaterVars, hostVars, setupState,
                   setupReturn, calledWith, readyOpts,
                   options, timers, downloadedHandlers>>

\* the showMessageBox promise of promptDownload resolves
PromptAnswer_p0(c, button) ==
    /\ revision = "p0"
    /\ cycles[c].pc = "prompt"
    /\ IF button = 0
          THEN /\ cycles' = [cycles EXCEPT ![c].pc = "done",
                                           ![c].answer = button,
                                           ![c].downloads = @ + 1]
               /\ UNCHANGED pauseUpdates
          ELSE /\ cycles' = [cycles EXCEPT ![c].pc = "done",
                                           ![c].answer = button]
               /\ pauseUpdates' = TRUE
    /\ UNCHANGED <<resolverVars, validated, updaterVars, hostVars, setupState,
                   setupReturn, calledWith, readyOpts,
                   options, hasLatestVersion, fetchedVersion, downloadUrl,
                   timers, rejections, feedURL, downloadedHandlers>>

\* the native updater finished a download that one of the coordinator's
\* autoUpdater.checkForUpdates() calls started and emits "update-downloaded":
\* onUpdateDownloaded up to showMessageBox, once per registered listener
UpdateDownloaded_p0 ==
    /\ revision = "p0"
    /\ downloadedEvents < NativeChecks(cycles, Len(cycles))
    /\ downloadedEvents' = downloadedEvents + 1
    /\ restarts' = Notified(restarts, downloadedHandlers)
    /\ UNCHANGED <<resolverVars, validated, quitCalls, hostVars, coordVars>>

\* a .then callback that calls quitAndInstall() whatever the answer
quitOnAnyAnswer_p0(button) == 1

\* quitAndInstall() calls the .then callback of onUpdateDownloaded makes
quitOnRestart_p0(button) == IF button = 0 THEN 1 ELSE 0

\* the showMessageBox promise of onUpdateDownloaded resolves
RestartAnswer_p0(i, button) ==
    /\ revision = "p0"
    /\ restarts[i].answer = -1
    /\ restarts' = [restarts EXCEPT ![i].answer = button]
    /\ quitCalls' = quitCalls + quitOnRestart_p0(button)
    /\ UNCHANGED <<resolverVars, validated, downloadedEvents, hostVars,
                   coordVars>>

Init_p0 ==
    /\ revision = "p0"
    /\ options = defaultOptions_p0
    /\ Constructed

Next_p0 ==
    \/ \E opts \in OptsSet : setup_p0(opts)
    \/ AppReady_p0
    \/ TimerFire_p0
    \/ \E c \in 1..Len(cycles), resp \in CoordResponses : FeedResponse_p0(c, resp)
    \/ \E c \in 1..Len(cycles), button \in Buttons : PromptAnswer_p0(c, button)

----------------------------------------------------------------------------
(* Coordinator of src/src/lib/inlineUpdater.ts *)

supportedPlatforms_lib == {"win32"}

\* opts?.updateInterval || "10 minutes"
OrInterval(opts, key, fallback) ==
    IF Has(opts, key) /\ opts[key] # EmptyString THEN opts[key] ELSE fallback

\* opts?.notifyBeforeApply || false
OrFalse(opts, key) == Has(opts, key) /\ opts[key]

\* the assignments to the instance fields, then the asserts; the field
\* notifyBeforeDownload is not among the assignments
validateInput_lib(opts, fields, pkg) ==
    LET pgkRepo  == guessRepo(pkg)
        assigned ==
            [repo |-> OrString(opts, "repo", pgkRepo.repo),
             user |-> OrString(opts, "user", pgkRepo.user),
             updateInterval |-> OrInterval(opts, "updateInterval", TenMinutes),
             notifyBeforeApply |-> OrFalse(opts, "notifyBeforeApply"),
             notifyBeforeDownload |-> fields.notifyBeforeDownload]
    IN [options |-> assigned, threw |-> ~AssertsPass(assigned)]

\* initUpdater run on behalf of cycle record cy, reading the fields url
\* (downloadUrl), paused (pauseUpdates) and has (hasLatestVersion)
initUpdater_lib(c, cy, url, paused, has) ==
    /\ feedURL' = url
    /\ IF paused \/ has
          THEN /\ cycles' = [cycles EXCEPT ![c] =
                    [cy EXCEPT !.pc = "done", !.setFeed = @ + 1]]
               /\ UNCHANGED <<timers, downloadedHandlers>>
          ELSE /\ cycles' = [cycles EXCEPT ![c] =
                    [cy EXCEPT !.pc = "done", !.setFeed = @ + 1,
                               !.downloads = @ + 1]]
               /\ timers' = timers + 1
               /\ downloadedHandlers' = downloadedHandlers +
                    (IF options.notifyBeforeApply THEN 1 ELSE 0)

\* onAppReady up to its await: a failed assert rejects the promise that
\* setup() and the "ready" listener drop
onAppReady_lib(opts) ==
    LET v == validateInput_lib(opts, options, packageJson)
    IN /\ options' = v.options
       /\ IF v.threw
            THEN /\ rejections' = rejections + 1
                 /\ UNCHANGED cycles
            ELSE /\ UNCHANGED rejections
                 /\ IF ~isPackaged \/ platform \notin supportedPlatforms_lib
                      THEN UNCHANGED cycles
                      ELSE cycles' = Append(cycles,
                                            Cycle("ready", "fetch", "-"))

setup_lib(opts) ==
    /\ revision = "lib"
    /\ setupState = "idle"
    /\ setupState' = "returned"
    /\ setupReturn' = "true"
    /\ calledWith' = opts
    /\ IF appReady
          THEN /\ onAppReady_lib(opts)
               /\ UNCHANGED readyOpts
          ELSE /\ readyOpts' = Append(readyOpts, opts)
               /\ UNCHANGED <<options, rejections, cycles>>
    /\ UNCHANGED <<resolverVars, validated, updaterVars, hostVars, fieldVars,
                   timers, feedURL,
                   downloadedHandlers>>

\* the host application's "ready" event
AppReady_lib ==
    /\ revision = "lib"
    /\ ~appReady
    /\ appReady' = TRUE
    /\ IF Len(readyOpts) > 0
          THEN onAppReady_lib(readyOpts[1])
          ELSE UNCHANGED <<options, rejections, cycles>>
    /\ UNCHANGED <<resolverVars, validated, updaterVars, revision, platform,
                   isPackaged, installed, packageJson, setupState,
                   setupReturn, calledWith, readyOpts, fieldVars,
                   timers, feedURL, downloadedHandlers>>

\* checkVersionDelta after fetchDownloadUrl returned r: the new value of
\* hasLatestVersion
checkVersionDelta_lib(r) ==
    IF ~Truthy(r.value) THEN hasLatestVersion
    ELSE SemverGte(installed, r.fetchedVersion)

\* the feed request of cycle c completes with resp: the rest of
\* fetchDownloadUrl and checkVersionDelta, and for the readiness cycle the
\* rest of onAppReady
FeedResponse_lib(c, resp) ==
    /\ revision = "lib"
    /\ cycles[c].pc = "fetch"
    /\ LET r   == fetchDownloadUrl_lib(resp, options.user, options.repo,
                                       fetchedVersion)
           has == checkVersionDelta_lib(r)
           cy  == [cycles[c] EXCEPT
                     !.outcome = IF Truthy(r.value) THEN "resolved"
                                 ELSE IF FetchThrows(resp) THEN "failed"
                                 ELSE "none",
                     !.tag = IF Truthy(r.value) THEN r.value.tag ELSE NoTag]
       IN /\ fetchedVersion' = r.fetchedVersion
          /\ downloadUrl' = r.value
          /\ hasLatestVersion' = has
          /\ IF cy.kind # "ready"
                THEN /\ cycles' = [cycles EXCEPT ![c] =
                                     [cy EXCEPT !.pc = "done"]]
                     /\ UNCHANGED <<feedURL, timers, downloadedHandlers>>
                ELSE IF options.notifyBeforeDownload
                THEN /\ cycles' = [cycles EXCEPT ![c] =
                                     [cy EXCEPT !.pc = "prompt",
                                                !.shown = @ + 1]]
                     /\ UNCHANGED <<feedURL, timers, downloadedHandlers>>
                ELSE initUpdater_lib(c, cy, r.value, pauseUpdates, has)
    /\ UNCHANGED <<resolverVars, validated, updaterVars, hostVars, setupState,
                   setupReturn, calledWith, readyOpts,
                   options, pauseUpdates, rejections>>

\* the showMessageBox promise of promptDownload resolves
PromptAnswer_lib(c, button) ==
    /\ revision = "lib"
    /\ cycles[c].pc = "prompt"
    /\ IF button = 0
          THEN /\ initUpdater_lib(c, [cycles[c] EXCEPT !.answer = button],
                                  downloadUrl, pauseUpdates, hasLatestVersion)
               /\ UNCHANGED pauseUpdates
          ELSE /\ cycles' = [cycles EXCEPT ![c].pc = "done",
                                           ![c].answer = button]
               /\ pauseUpdates' = TRUE
               /\ UNCHANGED <<feedURL, timers, downloadedHandlers>>
    /\ UNCHANGED <<resolverVars, validated, updaterVars, hostVars, setupState,
                   setupReturn, calledWith, readyOpts,
                   options, hasLatestVersion, fetchedVersion, downloadUrl,
                   rejections>>

\* the setInterval callback
TimerFire_lib ==
    /\ revision = "lib"
    /\ timers > 0
    /\ Len(cycles) < MaxCycles
    /\ cycles' = Append(cycles,
          IF pauseUpdates THEN Cycle("timer", "done", "paused")
          ELSE IF hasLatestVersion THEN Cycle("timer", "fetch", "-")
          ELSE [Cycle("timer", "done", "update") EXCEPT !.downloads = 1])
    /\ UNCHANGED <<resolverVars, validated, updaterVars, hostVars, setupState,
                   setupReturn, calledWith, readyOpts,
                   options, fieldVars, timers, rejections, feedURL,
                   downloadedHandlers>>

\* the native updater emits "update-downloaded"
UpdateDownloaded_lib ==
    /\ revision = "lib"
    /\ downloadedEvents < NativeChecks(cycles, Len(cycles))
    /\ downloadedEvents' = downloadedEvents + 1
    /\ restarts' = Notified(restarts, downloadedHandlers)
    /\ UNCHANGED <<resolverVars, validated, quitCalls, hostVars, coordVars>>

\* the showMessageBox promise of onUpdateDownloaded resolves
RestartAnswer_lib(i, button) ==
    /\ revision = "lib"
    /\ restarts[i].answer = -1
    /\ restarts' = [restarts EXCEPT ![i].answer = button]
    /\ quitCalls' = quitCalls + (IF button = 0 THEN 1 ELSE 0)
    /\ UNCHANGED <<resolverVars, validated, downloadedEvents, hostVars,
                   coordVars>>

\* notifyBeforeDownload is a public field that setup() never writes: it is
\* unset unless the host assigned it
Init_lib ==
    /\ revision = "lib"
    /\ options \in {[notifyBeforeDownload |-> b] : b \in BOOLEAN}
    /\ Constructed

Next_lib ==
    \/ \E opts \in OptsSet : setup_lib(opts)
    \/ AppReady_lib
    \/ TimerFire_lib
    \/ \E c \in 1..Len(cycles), resp \in CoordResponses :
          FeedResponse_lib(c, resp)
    \/ \E c \in 1..Len(cycles), button \in Buttons : PromptAnswer_lib(c, button)

----------------------------------------------------------------------------
(* Coordinator of src/unnamed/part_001 *)

supportedPlatforms_p1 == {"win32"}

\* the loop of fetchDownloadUrl: the position of the first release that is
\* not skipped and has a .nupkg asset, 0 if there is none
RECURSIVE Scan_p1(_, _)
Scan_p1(releases, i) ==
    IF i > Len(releases) THEN 0
    ELSE IF Skipped(releases[i]) THEN Scan_p1(releases, i + 1)
    ELSE IF nupkgAsset(releases[i].assets) THEN i
    ELSE Scan_p1(releases, i + 1)

\* the catch block returns null; a scan that selects nothing falls off the
\* end of the function; the value is the asset's browser_download_url
fetchDownloadUrl_p1(resp, user, repo, fv) ==
    IF FetchThrows(resp) THEN Returned(NULL, fv, 0)
    ELSE LET releases == ReleasesOf(resp)
             i        == Scan_p1(releases, 1)
         IN IF i = 0 THEN Returned(UNDEFINED, fv, 0)
            ELSE Returned(Url(user, repo, releases[i].tag_name, "nupkg"),
                          releases[i].tag_name, i)

\* safeOpts together with the field notifyBeforeApply, then the asserts
validateInput_p1(opts, pkg) ==
    LET pgkRepo == guessRepo(pkg)
        safe    == [repo |-> OrString(opts, "repo", pgkRepo.repo),
                    user |-> OrString(opts, "user", pgkRepo.user),
                    updateInterval |->
                        OrInterval(opts, "updateInterval", TenMinutes),
                    notifyBeforeApply |-> OrFalse(opts, "notifyBeforeApply")]
    IN [options |-> safe, threw |-> ~AssertsPass(safe)]

\* setup up to its await; a failed assert rejects the promise setup returns
setup_p1(opts) ==
    /\ revision = "p1"
    /\ setupState = "idle"
    /\ calledWith' = opts
    /\ LET v == validateInput_p1(opts, packageJson)
       IN /\ options' = v.options
          /\ IF v.threw
                THEN /\ setupState' = "threw"
                     /\ UNCHANGED <<setupReturn, cycles>>
                ELSE IF ~isPackaged \/ platform \notin supportedPlatforms_p1
                THEN /\ setupState' = "returned"
                     /\ setupReturn' = "false"
                     /\ UNCHANGED cycles
                ELSE /\ setupState' = "awaiting"
                     /\ cycles' = Append(cycles, Cycle("setup", "fetch", "-"))
                     /\ UNCHANGED setupReturn
    /\ UNCHANGED <<resolverVars, validated, updaterVars, hostVars, readyOpts,
                   fieldVars, timers, rejections, feedURL, downloadedHandlers>>

\* initUpdater, counted on the record cy of setup's feed request
initUpdater_p1(cy, url, opt) ==
    /\ feedURL' = url
    /\ downloadedHandlers' =
          downloadedHandlers + (IF opt.notifyBeforeApply THEN 1 ELSE 0)
    /\ cycles' = [cycles EXCEPT ![1] = [cy EXCEPT !.setFeed = @ + 1]]

\* the value setup assigns to hasLatestVersion after fetchDownloadUrl
hasLatestVersion_p1(fv) == SemverLte(installed, fv)

\* the feed request of setup completes with resp: the rest of
\* fetchDownloadUrl and of setup
FeedResponse_p1(resp) ==
    /\ revision = "p1"
    /\ setupState = "awaiting"
    /\ setupState' = "returned"
    /\ LET r  == fetchDownloadUrl_p1(resp, options.user, options.repo,
                                     fetchedVersion)
           cy == [cycles[1] EXCEPT
                    !.pc = "done",
                    !.outcome = IF Truthy(r.value) THEN "resolved"
                                ELSE IF FetchThrows(resp) THEN "failed"
                                ELSE "none",
                    !.tag = IF Truthy(r.value) THEN r.value.tag ELSE NoTag]
       IN /\ fetchedVersion' = r.fetchedVersion
          /\ downloadUrl' = r.value
          /\ hasLatestVersion' = hasLatestVersion_p1(r.fetchedVersion)
          /\ IF ~Truthy(r.value)
                THEN /\ setupReturn' = "false"
                     /\ cycles' = [cycles EXCEPT ![1] = cy]
                     /\ UNCHANGED <<readyOpts, feedURL, downloadedHandlers>>
                ELSE /\ setupReturn' = "true"
                     /\ IF appReady
                           THEN /\ initUpdater_p1(cy, r.value, options)
                                /\ UNCHANGED readyOpts
                           ELSE /\ readyOpts' = Append(readyOpts, None)
                                /\ cycles' = [cycles EXCEPT ![1] = cy]
                                /\ UNCHANGED <<feedURL, downloadedHandlers>>
    /\ UNCHANGED <<resolverVars, validated, updaterVars, hostVars,
                   calledWith, options, pauseUpdates, timers, rejections>>

\* the host application's "ready" event: the listener setup registered runs
\* initUpdater with the URL it captured
AppReady_p1 ==
    /\ revision = "p1"
    /\ ~appReady
    /\ appReady' = TRUE
    /\ IF Len(readyOpts) > 0
          THEN initUpdater_p1(cycles[1], downloadUrl, options)
          ELSE UNCHANGED <<feedURL, downloadedHandlers, cycles>>
    /\ UNCHANGED <<resolverVars, validated, updaterVars, revision, platform,
                   isPackaged, installed, packageJson, setupState,
                   setupReturn, calledWith, readyOpts, options, fieldVars,
                   timers, rejections>>

\* the fields hasLatestVersion and fetchedVersion are initialised,
\* notifyBeforeApply is not
Init_p1 ==
    /\ revision = "p1"
    /\ options = None
    /\ Constructed

Next_p1 ==
    \/ \E opts \in OptsSet : setup_p1(opts)
    \/ AppReady_p1
    \/ \E resp \in CoordResponses : FeedResponse_p1(resp)

SpecP1 == Init_p1 /\ [][Next_p1]_vars

----------------------------------------------------------------------------
(* The release resolver on its own: one call of fetchDownloadUrl on each
   feed response *)

InitResolver ==
    /\ \/ revision = "p0" /\ platform \in supportedPlatforms_p0
       \/ revision = "lib" /\ platform \in supportedPlatforms_lib
    /\ response \in Responses
    /\ resolved = NotRun
    /\ isPackaged = TRUE
    /\ installed = <<1, 4, 9>>
    /\ packageJson = [exists |-> FALSE, repository |-> <<>>]
    /\ appReady = TRUE
    /\ setupState = "returned"
    /\ setupReturn = "true"
    /\ calledWith = Named
    /\ readyOpts = <<>>
    /\ options = Named @@ defaultOptions_p0
    /\ hasLatestVersion = TRUE
    /\ fetchedVersion = <<0, 0, 0>>
    /\ pauseUpdates = FALSE
    /\ downloadUrl = UNDEFINED
    /\ cycles = <<>>
    /\ timers = 0
    /\ rejections = 0
    /\ feedURL = UNDEFINED
    /\ downloadedHandlers = 0
    /\ downloadedEvents = 0
    /\ restarts = <<>>
    /\ quitCalls = 0
    /\ validated = <<>>

CallFetch_p0 ==
    /\ revision = "p0"
    /\ resolved = NotRun
    /\ LET r == fetchDownloadUrl_p0(response, options.user, options.repo,
                                    platform, fetchedVersion)
       IN /\ resolved' = [by |-> "p0", threw |-> r.threw, value |-> r.value,
                          index |-> r.index]
          /\ fetchedVersion' = r.fetchedVersion
    /\ UNCHANGED <<response, validated, updaterVars, hostVars, setupState,
                   setupReturn, calledWith, readyOpts,
                   options, hasLatestVersion, pauseUpdates, downloadUrl,
                   cycles, timers, rejections, feedURL, downloadedHandlers>>

CallFetch_lib ==
    /\ revision = "lib"
    /\ resolved = NotRun
    /\ LET r == fetchDownloadUrl_lib(response, options.user, options.repo,
                                     fetchedVersion)
       IN /\ resolved' = [by |-> "lib", threw |-> r.threw, value |-> r.value,
                          index |-> r.index]
          /\ fetchedVersion' = r.fetchedVersion
    /\ UNCHANGED <<response, validated, updaterVars, hostVars, setupState,
                   setupReturn, calledWith, readyOpts,
                   options, hasLatestVersion, pauseUpdates, downloadUrl,
                   cycles, timers, rejections, feedURL, downloadedHandlers>>

NextResolver == CallFetch_p0 \/ CallFetch_lib

SpecResolver == InitResolver /\ [][NextResolver]_vars

----------------------------------------------------------------------------
(* Specifications *)

Init == Init_p0 \/ Init_lib

Next == Next_p0 \/ Next_lib

Spec == Init /\ [][Next]_vars

\* Input validation of part_000 on its own: validateInput called again and
\* again on one instance, as by repeated setup() calls
InitValidate ==
    /\ Init_p0
    /\ isPackaged
    /\ platform = "win32"
    /\ installed = <<1, 4, 9>>

validate_p0(opts) ==
    /\ revision = "p0"
    /\ Len(validated) < MaxCalls
    /\ LET v == validateInput_p0(opts, options, packageJson)
       IN /\ options' = v.options
          /\ validated' = Append(validated,
                [opts |-> opts, threw |-> v.threw,
                 derived |-> <<v.options.user, v.options.repo,
                               v.options.updateInterval>>])
    /\ UNCHANGED <<resolverVars, updaterVars, hostVars, setupState,
                   setupReturn, calledWith, readyOpts, fieldVars, cycles,
                   timers, rejections, feedURL, downloadedHandlers>>

NextValidate == \E opts \in OptsSet : validate_p0(opts)

SpecValidate == InitValidate /\ [][NextValidate]_vars

\* The coordinator together with the native updater's "update-downloaded"
\* events, in a packaged Windows build of version 1.4.9 that ships its
\* package.json
InitUpdater ==
    /\ Init
    /\ isPackaged
    /\ platform = "win32"
    /\ installed = <<1, 4, 9>>
    /\ packageJson.exists

NextUpdater ==
    \/ Next_p0
    \/ UpdateDownloaded_p0
    \/ \E i \in 1..Len(restarts), button \in RestartButtons :
          RestartAnswer_p0(i, button)
    \/ Next_lib
    \/ UpdateDownloaded_lib
    \/ \E i \in 1..Len(restarts), button \in RestartButtons :
          RestartAnswer_lib(i, button)

SpecUpdater == InitUpdater /\ [][NextUpdater]_vars

----------------------------------------------------------------------------
(* Properties of the release resolver, checked under SpecResolver *)

\* C6: fetchDownloadUrl returns the first record, in feed order, whose tag is
\* a valid semantic version, that is neither draft nor prerelease and that
\* has a platform-matching asset, whether or not a later record carries a
\* higher version; it returns none when no record passes.
C6_FirstEligibleInFeedOrder ==
    (resolved.by # "none" /\ ~FetchThrows(response)) =>
        LET items == ReleasesOf(response)
            Matching(rel) ==
                {k \in 1..Len(rel.assets) :
                    IF resolved.by = "lib" \/ platform = "win32"
                        THEN EndsWithNupkg(rel.assets[k])
                        ELSE platform = "darwin" /\ IncludesDarwin(rel.assets[k])}
            Passing ==
                {i \in 1..Len(items) :
                    /\ Len(items[i].tag_name) \in {3, 4}
                    /\ items[i].draft = 0
                    /\ items[i].prerelease = 0
                    /\ Matching(items[i]) # {}}
        IN IF Passing = {}
             THEN ~Truthy(resolved.value) /\ fetchedVersion = <<0, 0, 0>>
             ELSE \A i \in Passing :
                    (\A j \in Passing : i <= j) =>
                        /\ Truthy(resolved.value)
                        /\ resolved.value.tag = items[i].tag_name
                        /\ fetchedVersion = items[i].tag_name

\* the feed [v1.2.0 eligible, v1.3.0 prerelease, v1.4.0 eligible] was
\* resolved to v1.2.0
C6_Witness ==
    /\ resolved.by # "none"
    /\ response = HttpResponse(200, ArrayBody(<<R120, R130pre, R140>>))
    /\ resolved.value = Url("owner", "proj", <<1, 2, 0>>,
                            IF resolved.by = "lib" THEN "RELEASES" ELSE "")

\* C7 as stated: a release is selected only if its tag is a well-formed
\* semantic version, it is neither draft nor prerelease and it has exactly
\* one asset matching the platform's asset-name predicate.
C7_SelectedHasExactlyOneAsset ==
    (resolved.by # "none" /\ resolved.index > 0) =>
        LET rel == ReleasesOf(response)[resolved.index]
            Matching ==
                {k \in 1..Len(rel.assets) :
                    IF resolved.by = "lib" \/ platform = "win32"
                        THEN EndsWithNupkg(rel.assets[k])
                        ELSE platform = "darwin" /\ IncludesDarwin(rel.assets[k])}
        IN /\ Len(rel.tag_name) \in {3, 4}
           /\ rel.draft = 0
           /\ rel.prerelease = 0
           /\ Cardinality(Matching) = 1

\* C7 amended: a release is selected only if its tag is a well-formed
\* semantic version, it is neither draft nor prerelease and it has at least
\* one asset matching the platform's asset-name predicate; a release with no
\* matching asset is never selected.
C7_SelectedHasMatchingAsset ==
    (resolved.by # "none" /\ resolved.index > 0) =>
        LET rel == ReleasesOf(response)[resolved.index]
            Matching ==
                {k \in 1..Len(rel.assets) :
                    IF resolved.by = "lib" \/ platform = "win32"
                        THEN EndsWithNupkg(rel.assets[k])
                        ELSE platform = "darwin" /\ IncludesDarwin(rel.assets[k])}
        IN /\ Len(rel.tag_name) \in {3, 4}
           /\ rel.draft = 0
           /\ rel.prerelease = 0
           /\ Cardinality(Matching) >= 1
           /\ Truthy(resolved.value)
           /\ resolved.value.tag = rel.tag_name

\* a release carrying two matching assets was selected
C7_Witness ==
    /\ resolved.by # "none"
    /\ resolved.index > 0
    /\ ReleasesOf(response)[resolved.index] = R150
    /\ resolved.value.tag = <<1, 5, 0>>

----------------------------------------------------------------------------
(* Properties of the coordinators, checked under Spec *)

\* C1 as stated: in part_000, once a download-consent prompt was answered
\* "Later", pauseUpdates is true and stays true, and from then on no further
\* consent prompt is shown and autoUpdater.checkForUpdates() is not invoked.
C1_DeclineIsFinal ==
    [][(revision = "p0" /\ pauseUpdates) =>
          /\ pauseUpdates'
          /\ \A c \in 1..Len(cycles') :
                IF c <= Len(cycles)
                    THEN /\ cycles'[c].shown = cycles[c].shown
                         /\ cycles'[c].downloads = cycles[c].downloads
                    ELSE /\ cycles'[c].shown = 0
                         /\ cycles'[c].downloads = 0]_vars

\* C2: in part_000 with notifyBeforeDownload true, a check cycle that
\* resolved a release newer than the installed version has shown exactly one
\* download-consent prompt, and has not invoked autoUpdater.checkForUpdates()
\* unless that prompt was answered "Yes"; it invokes it at most once.
C2_ConsentBeforeDownload ==
    (revision = "p0" /\ setupState = "returned"
        /\ options.notifyBeforeDownload) =>
        \A c \in 1..Len(cycles) :
            (cycles[c].outcome = "resolved"
                /\ SemverGt(cycles[c].tag, installed)) =>
                /\ cycles[c].shown = 1
                /\ cycles[c].answer # 0 => cycles[c].downloads = 0
                /\ cycles[c].downloads <= 1

\* installed 1.4.9, resolved 1.5.0: the prompt was answered "Yes" and the
\* download started
C2_Witness ==
    /\ revision = "p0"
    /\ options.notifyBeforeDownload
    /\ installed = <<1, 4, 9>>
    /\ \E c \in 1..Len(cycles) :
          /\ cycles[c].outcome = "resolved"
          /\ cycles[c].tag = <<1, 5, 0>>
          /\ cycles[c].shown = 1
          /\ cycles[c].answer = 0
          /\ cycles[c].downloads = 1

\* C3 as stated: in inlineUpdater.ts, when setup() was called with
\* notifyBeforeDownload: true and the readiness check resolved a release
\* newer than the installed version, a download-consent prompt was shown and
\* autoUpdater.checkForUpdates() is not invoked before it was answered "Yes".
C3_ConsentBeforeDownload_lib ==
    (revision = "lib" /\ Has(calledWith, "notifyBeforeDownload")
        /\ calledWith.notifyBeforeDownload) =>
        /\ \A c \in 1..Len(cycles) :
              (cycles[c].kind = "ready" /\ cycles[c].outcome = "resolved"
                  /\ SemverGt(cycles[c].tag, installed)) =>
                  cycles[c].shown = 1
        /\ \A c \in 1..Len(cycles) :
              cycles[c].downloads > 0 =>
                  \E p \in 1..Len(cycles) : cycles[p].answer = 0

\* C4 as stated: in part_000, a check cycle whose feed request fails leaves
\* fetchedVersion, downloadUrl and hasLatestVersion as they were, and
\* checkForUpdates ends without a rejection reaching its caller.
C4_FeedFailureContained ==
    [][\A c \in 1..Len(cycles) :
          (revision = "p0" /\ cycles[c].pc = "fetch"
              /\ cycles'[c].outcome = "failed") =>
              /\ UNCHANGED <<fetchedVersion, downloadUrl, hasLatestVersion>>
              /\ cycles'[c].pc = "done"
              /\ rejections' = rejections]_vars

\* C5 as stated: in part_000, a check cycle whose feed response holds no
\* eligible release keeps hasLatestVersion at its prior value and shows no
\* consent prompt, makes no setFeedURL call and starts no download.
C5_NoEligibleIsNoOp ==
    [][\A c \in 1..Len(cycles) :
          (revision = "p0" /\ cycles[c].pc = "fetch"
              /\ cycles'[c].outcome = "none") =>
              /\ hasLatestVersion' = hasLatestVersion
              /\ cycles'[c].shown = 0
              /\ cycles'[c].setFeed = 0
              /\ cycles'[c].downloads = 0]_vars

\* C8: at the end of a check cycle that resolved a candidate (part_000 and
\* inlineUpdater.ts), hasLatestVersion is true exactly when the installed
\* version does not precede fetchedVersion in semantic-version order, and
\* fetchedVersion is the tag of the candidate the cycle resolved.
C8_UpToDateIffInstalledGte ==
    [][\A c \in 1..Len(cycles) :
          (cycles[c].pc = "fetch" /\ cycles'[c].outcome = "resolved") =>
              LET a == installed
                  b == fetchedVersion'
                  MainLower == \E i \in 1..3 :
                                  /\ a[i] < b[i]
                                  /\ \A j \in 1..(i - 1) : a[j] = b[j]
                  MainEqual == \A i \in 1..3 : a[i] = b[i]
                  PreLower  == \/ Len(a) = 4 /\ Len(b) = 3
                               \/ Len(a) = 4 /\ Len(b) = 4 /\ a[4] < b[4]
              IN /\ b = cycles'[c].tag
                 /\ hasLatestVersion' <=> ~(MainLower \/ (MainEqual /\ PreLower))
      ]_vars

\* installed 1.5.0 against a resolved 1.5.0: up to date
C8_Witness ==
    /\ installed = <<1, 5, 0>>
    /\ fetchedVersion = <<1, 5, 0>>
    /\ hasLatestVersion
    /\ \E c \in 1..Len(cycles) :
          /\ cycles[c].outcome = "resolved"
          /\ cycles[c].tag = <<1, 5, 0>>
          /\ cycles[c].pc = "done"

\* C9: in part_000, when setup() is called with an updateInterval string that
\* is malformed or parses to less than five minutes it throws, and no "ready"
\* listener, timer, update-downloaded listener or feed request exists then or
\* later.
C9_BadIntervalSchedulesNothing ==
    (revision = "p0" /\ setupState # "idle"
        /\ Has(calledWith, "updateInterval")
        /\ (calledWith.updateInterval.lead < 0
              \/ ms(calledWith.updateInterval) < 5 * 60 * 1000)) =>
        /\ setupState = "threw"
        /\ readyOpts = <<>>
        /\ timers = 0
        /\ downloadedHandlers = 0
        /\ cycles = <<>>
        /\ feedURL = UNDEFINED

\* setup({updateInterval: "4 minutes"}) threw, and readiness came and went
C9_Witness ==
    /\ revision = "p0"
    /\ setupState = "threw"
    /\ Has(calledWith, "updateInterval")
    /\ calledWith.updateInterval = FourMinutes
    /\ appReady
    /\ isPackaged
    /\ platform = "win32"

\* C10 as stated: in part_000, when the repo or the user is neither given
\* nor derivable from package.json, setup() throws and schedules nothing.
C10_MissingOwnerOrRepoRejected ==
    (revision = "p0" /\ setupState # "idle"
        /\ Len(packageJson.repository) # 2
        /\ (~Has(calledWith, "repo") \/ ~Has(calledWith, "user"))) =>
        /\ setupState = "threw"
        /\ readyOpts = <<>>
        /\ timers = 0
        /\ cycles = <<>>

\* C11: in a development build (app.isPackaged false) or on a platform outside
\* the supported set, a setup() call that got past validation has returned
\* false and nothing further happened: no check cycle (feed request, prompt,
\* native-updater call), no timer, no feed URL and no listener.
C11_DevOrUnsupportedReturnsFalse ==
    (/\ setupState = "returned"
     /\ \/ ~isPackaged
        \/ revision = "p0" /\ platform \notin supportedPlatforms_p0
        \/ revision = "lib" /\ platform \notin supportedPlatforms_lib) =>
        /\ setupReturn = "false"
        /\ cycles = <<>>
        /\ timers = 0
        /\ feedURL = UNDEFINED
        /\ downloadedHandlers = 0

\* C12: in part_000, once setup() has returned and the app is ready in a
\* packaged build on a supported platform, the readiness cycle has started and
\* the interval timer exists; and whenever the timer exists and pauseUpdates
\* is false, the timer callback can run and starts a cycle that issues a feed
\* request, whatever became of the earlier cycles (pending, failed, prompting).
C12_EveryFiringStartsACycle ==
    revision = "p0" =>
        /\ (/\ setupState = "returned"
            /\ appReady
            /\ isPackaged
            /\ platform \in supportedPlatforms_p0) =>
               /\ timers = 1
               /\ Len(cycles) >= 1
               /\ cycles[1].kind = "ready"
        /\ (timers > 0 /\ ~pauseUpdates /\ Len(cycles) < MaxCycles) =>
               ENABLED (/\ TimerFire_p0
                        /\ cycles'[Len(cycles')] = Cycle("timer", "fetch", "-"))

\* the feed request of the readiness cycle failed and a timer-driven cycle is
\* waiting for its own feed response
C12_Witness ==
    /\ revision = "p0"
    /\ Len(cycles) = 2
    /\ cycles[1].kind = "ready"
    /\ cycles[1].pc = "rejected"
    /\ cycles[2].kind = "timer"
    /\ cycles[2].pc = "fetch"

\* C13: in inlineUpdater.ts, once the readiness-time check has ended with the
\* app up to date, with no eligible release or with a failed feed request, and
\* updates are not paused, the interval timer exists and its callback can run
\* a cycle that queries the feed again.
C13_PollingContinues_lib ==
    (/\ revision = "lib"
     /\ Len(cycles) >= 1
     /\ cycles[1].kind = "ready"
     /\ cycles[1].pc = "done"
     /\ ~pauseUpdates
     /\ \/ cycles[1].outcome \in {"failed", "none"}
        \/ cycles[1].outcome = "resolved" /\ hasLatestVersion) =>
        /\ timers > 0
        /\ Len(cycles) < MaxCycles =>
              ENABLED (/\ TimerFire_lib
                       /\ cycles'[Len(cycles')].pc = "fetch")

\* C14: in part_000, hasLatestVersion is true from construction until a cycle
\* has resolved the feed, and no download-consent prompt has been shown until
\* then; a prompt is shown only by a cycle whose own feed request has resolved.
C14_NoPromptBeforeFirstResolution ==
    revision = "p0" =>
        /\ (\A c \in 1..Len(cycles) :
                cycles[c].outcome \notin {"none", "resolved"}) =>
               /\ hasLatestVersion
               /\ \A c \in 1..Len(cycles) : cycles[c].shown = 0
        /\ \A c \in 1..Len(cycles) :
               cycles[c].shown > 0 => cycles[c].outcome \in {"none", "resolved"}

\* the first cycle of the process has resolved a release and its prompt is open
C14_Witness ==
    /\ revision = "p0"
    /\ Len(cycles) = 1
    /\ cycles[1].outcome = "resolved"
    /\ cycles[1].pc = "prompt"
    /\ cycles[1].shown = 1
    /\ ~hasLatestVersion

\* C15: in inlineUpdater.ts, after setup() was called without a
\* notifyBeforeApply option, the flag is true once the input is validated, the
\* "update-downloaded" listener is registered once initUpdater has run through,
\* and every "update-downloaded" event has raised a restart prompt.
C15_ApplyPromptByDefault_lib ==
    (/\ revision = "lib"
     /\ setupState = "returned"
     /\ ~Has(calledWith, "notifyBeforeApply")) =>
        /\ Has(options, "notifyBeforeApply") => options.notifyBeforeApply
        /\ timers > 0 => downloadedHandlers > 0
        /\ Len(restarts) = downloadedEvents

\* C16: in part_000, two consecutive validateInput calls with the same input
\* on one instance derive the same (user, repo, updateInterval) triple and
\* fail or pass alike, whatever the calls before them left in this.options.
C16_ValidationIdempotent ==
    \A i \in 1..(Len(validated) - 1) :
        validated[i].opts = validated[i + 1].opts =>
            /\ validated[i + 1].derived = validated[i].derived
            /\ validated[i + 1].threw = validated[i].threw

\* a call with updateInterval "5 minutes", then two identical calls without
\* updateInterval: both derive the interval the first call left behind
C16_Witness ==
    /\ Len(validated) = 3
    /\ Has(validated[1].opts, "updateInterval")
    /\ validated[1].opts.updateInterval = FiveMin
    /\ validated[2].opts = validated[3].opts
    /\ ~Has(validated[2].opts, "updateInterval")
    /\ validated[3].derived[3] = FiveMin

\* C17: in part_000, every setFeedURL call is given a non-null locator, and
\* at every autoUpdater.checkForUpdates() call the feed URL configured last is
\* the locator of a resolved release newer than the installed version.
C17_DownloadUsesResolvedLocator ==
    [][revision = "p0" =>
          \A c \in 1..Len(cycles) :
              /\ cycles'[c].setFeed > cycles[c].setFeed => Truthy(feedURL')
              /\ cycles'[c].downloads > cycles[c].downloads =>
                    /\ Truthy(feedURL')
                    /\ SemverGt(feedURL'.tag, installed)]_vars

\* C18 as stated: in part_000 at most one check cycle at a time is waiting for
\* its feed response or for the answer to its download-consent prompt.
C18_AtMostOneActiveCycle ==
    revision = "p0" =>
        Cardinality({c \in 1..Len(cycles) :
                        cycles[c].pc \in {"fetch", "prompt"}}) <= 1

\* C18 amended: in part_000 one cycle is started at readiness and every other
\* one by a firing of the single interval timer, and each cycle has shown at
\* most one download-consent prompt, which is the one open while the cycle
\* waits for an answer; so there are never more open prompts than cycles
\* started.
C18_OnePromptPerCycle ==
    revision = "p0" =>
        /\ timers <= 1
        /\ \A c \in 1..Len(cycles) :
              /\ cycles[c].kind = "ready" <=> c = 1
              /\ cycles[c].shown <= 1
              /\ cycles[c].pc = "prompt" =>
                    cycles[c].shown = 1 /\ cycles[c].answer = -1

\* the readiness cycle and a timer-driven cycle both have their prompt open
C18_Witness ==
    /\ revision = "p0"
    /\ Len(cycles) = 2
    /\ cycles[1].pc = "prompt"
    /\ cycles[2].pc = "prompt"
    /\ cycles[2].kind = "timer"

\* C19: in part_000, a check cycle that resolved a release no newer than the
\* installed version has ended without showing a prompt, without calling
\* setFeedURL and without calling autoUpdater.checkForUpdates().
C19_UpToDateCycleIsSilent ==
    revision = "p0" =>
        \A c \in 1..Len(cycles) :
            (/\ cycles[c].outcome = "resolved"
             /\ SemverGte(installed, cycles[c].tag)) =>
                /\ cycles[c].pc = "done"
                /\ cycles[c].shown = 0
                /\ cycles[c].setFeed = 0
                /\ cycles[c].downloads = 0

\* a timer-driven cycle resolved the older 1.2.0 while the prompt of the
\* readiness cycle is still open
C19_Witness ==
    /\ revision = "p0"
    /\ Len(cycles) = 2
    /\ cycles[1].pc = "prompt"
    /\ cycles[2].outcome = "resolved"
    /\ cycles[2].tag = <<1, 2, 0>>
    /\ cycles[2].pc = "done"
    /\ hasLatestVersion

\* C20: in part_000, quitAndInstall() has been called exactly once per
\* restart prompt answered "Restart"; every restart prompt was raised by an
\* "update-downloaded" event reaching the listener registered under
\* notifyBeforeApply; with notifyBeforeApply false, or with only "Later"
\* answers, quitAndInstall() has not been called.
C20_QuitOnlyOnRestartAnswer ==
    revision = "p0" =>
        /\ quitCalls = Cardinality({i \in 1..Len(restarts) :
                                      restarts[i].answer = 0})
        /\ Len(restarts) <= downloadedEvents
        /\ restarts # <<>> =>
              options.notifyBeforeApply /\ downloadedHandlers > 0
        /\ ~options.notifyBeforeApply => quitCalls = 0

\* two downloads finished: the first restart prompt was answered "Later", the
\* second "Restart"
C20_Witness ==
    /\ revision = "p0"
    /\ downloadedEvents = 2
    /\ Len(restarts) = 2
    /\ restarts[1].answer = 1
    /\ restarts[2].answer = 0
    /\ quitCalls = 1

\* C21: in part_000, a check cycle started while pauseUpdates is true ends at
\* once: it issues no feed request, shows no prompt, calls neither setFeedURL
\* nor autoUpdater.checkForUpdates(), and the step leaves fetchedVersion,
\* downloadUrl, hasLatestVersion, pauseUpdates and the feed URL as they were;
\* nothing happens to such a cycle afterwards.
C21_PausedCycleDoesNothing ==
    [][revision = "p0" =>
          /\ (pauseUpdates /\ Len(cycles') = Len(cycles) + 1) =>
                /\ cycles'[Len(cycles')].pc = "done"
                /\ cycles'[Len(cycles')].outcome = "paused"
                /\ cycles'[Len(cycles')].shown = 0
                /\ cycles'[Len(cycles')].setFeed = 0
                /\ cycles'[Len(cycles')].downloads = 0
                /\ UNCHANGED <<fieldVars, feedURL, rejections>>
          /\ \A c \in 1..Len(cycles) :
                cycles[c].outcome = "paused" => cycles'[c] = cycles[c]]_vars

\* the readiness cycle's prompt was answered "Later" and the next timer-driven
\* cycle ended as paused
C21_Witness ==
    /\ revision = "p0"
    /\ Len(cycles) = 2
    /\ cycles[1].answer = 1
    /\ pauseUpdates
    /\ cycles[2].kind = "timer"
    /\ cycles[2].outcome = "paused"

\* C22: in part_001, once setup() has resolved a release, hasLatestVersion is
\* true exactly when the installed version is greater than or equal to the
\* fetched version.
C22_UpToDateIffInstalledGte_p1 ==
    (/\ revision = "p1"
     /\ Len(cycles) = 1
     /\ cycles[1].outcome = "resolved") =>
        (hasLatestVersion <=> SemverGte(installed, fetchedVersion))

\* C23: in part_000 and inlineUpdater.ts, with notifyBeforeApply true, the
\* "update-downloaded" listener is registered in every state in which the
\* coordinator has made an autoUpdater.checkForUpdates() call, so no event of
\* the native updater can arrive before it, and every "update-downloaded"
\* event has raised its restart prompt.
C23_ListenerBeforeAnyEvent ==
    (/\ revision \in {"p0", "lib"}
     /\ Has(options, "notifyBeforeApply")
     /\ options.notifyBeforeApply) =>
        /\ NativeChecks(cycles, Len(cycles)) > 0 => downloadedHandlers = 1
        /\ Len(restarts) = downloadedEvents

\* inlineUpdater.ts with notifyBeforeApply: true: the download that initUpdater
\* started has finished and its restart prompt is open
C23_Witness ==
    /\ revision = "lib"
    /\ Has(options, "notifyBeforeApply")
    /\ options.notifyBeforeApply
    /\ downloadedEvents = 1
    /\ Len(restarts) = 1
    /\ restarts[1].answer = -1

====
